---- MODULE Spec2Model ----
(***************************************************************************)
(* Model of the opensky_downloader ingestion pipeline:                     *)
(*   main.rs              download_and_store / handle_download             *)
(*   record_downloader.rs DownloadInfo::download / iterate_records         *)
(*   db_writer.rs         DatabaseWriter (add_record, write_records,       *)
(*                        finish and the tracker task it spawns)           *)
(***************************************************************************)
EXTENDS Integers, Sequences, FiniteSets, TLC

\* ---- bounds of the model -------------------------------------------------
MaxRows == 3        \* longest source stream (rows after the header)
MaxChunk == 2       \* largest chunk size given to set_chunk_size
MaxCalls == 2       \* most download() calls on one DownloadInfo

\* ---- program constants ---------------------------------------------------
DEFAULT_CHUNK_SIZE == 1000

\* ---- records -------------------------------------------------------------
\* A key (icao24) is a sequence of characters: the empty key of a placeholder
\* row, and a key of mixed case.
Keys == { <<>>, <<"a", "B">> }

upper_char(c) ==
    CASE c = "a" -> "A"
      [] c = "b" -> "B"
      [] c = "c" -> "C"
      [] OTHER -> c

\* Mutant of to_uppercase: the key is left as it is.
to_uppercase_identity(s) == s

\* str::to_uppercase
to_uppercase(s) == [i \in 1..Len(s) |-> upper_char(s[i])]

\* Mutant of is_empty: no key is ever taken as empty.
is_empty_never(s) == FALSE

\* str::is_empty
is_empty(s) == Len(s) = 0

\* An Aircraft: the key plus the row it came from (standing for the other
\* columns, so that two rows with equal keys remain different records).
Aircraft(k, r) == [icao24 |-> k, row |-> r]

\* The field handle_download tests for emptiness and uppercases.
key_field == "icao24"

\* Mutant of index_field: the index is put on the key field.
index_field_key == "icao24"

\* The field download_and_store passes to create_index.
index_field == "registration"

\* RecordInfo { record, position }
RecordInfo(rec, p) == [record |-> rec, position |-> p]

\* The document the collection holds before the run.
OldDoc == Aircraft(<<"O">>, 0)

Sources == UNION { [1..n -> Keys] : n \in 0..MaxRows }

\* ExitCodes
Success == 0
DownloadError == 1
DatabaseError == 2
JoinError == 3

VARIABLES
    pc,               \* position of main / download_and_store
    exit_code,        \* download_and_store's exit_code (returned at "done")
    source,           \* the rows of the CSV resource, in order
    content_length,   \* DownloadInfo.content_length
    tx_channel,       \* DownloadInfo.tx_channel: "Some" or "None"
    rx_channel,       \* envelopes sent and not yet received
    rx_dropped,       \* the DownloadInfo (and its receiver) has been dropped
    producer,         \* producer task: "none", "running", "ok", "err", "panic"
    pos,              \* rows the producer has read
    chunk_size,       \* DatabaseWriter.chunk_size
    records,          \* DatabaseWriter.records
    join_handles,     \* DatabaseWriter.join_handles (indices into tasks)
    tasks,            \* every spawned WriteTask: its batch and its state
    collection,       \* documents of the destination collection
    indexes,          \* indexed fields of the destination collection
    drop_status,      \* drop_collection: "none", "ok", "err"
    index_status,     \* create_index: "none", "ok", "err"
    received,         \* envelopes the consumer loop has received, in order
    tracker,          \* tracker task: "none", "running", "done"
    t_handles,        \* the tracker's join_handles still to be awaited
    t_tasks,          \* the tracker's `tasks`
    counter,          \* the tracker's `counter`
    awaited,          \* handles the tracker has awaited, in order
    progress,         \* progress channel: values sent and not yet received
    sent,             \* every value sent on the progress channel, in order
    position,         \* the progress bar's position (set_position)
    response,         \* what the GET yielded: "none" before download()
    calls,            \* every download() call so far: inputs, result, effect
    progress_rx       \* receiver returned by finish(): "none", "open", "dropped"

vars == << pc, exit_code, source, content_length, tx_channel, rx_channel,
           rx_dropped, producer, pos, chunk_size, records, join_handles,
           tasks, collection, indexes, drop_status, index_status, received,
           tracker, t_handles, t_tasks, counter, awaited, progress, sent,
           position, response, calls, progress_rx >>

mainVars == << pc, exit_code, progress_rx >>
dlVars == << content_length, tx_channel, response, calls >>
prodVars == << producer, pos >>
writerVars == << chunk_size, records, join_handles >>
storeVars == << collection, indexes, drop_status, index_status >>
trackVars == << tracker, t_handles, t_tasks, counter, awaited, sent >>

\* ---- progress values -----------------------------------------------------
\* A progress value (counter / tasks) * 100.0 is kept as the exact fraction
\* <<counter, tasks>>; the terminal 100.0 is <<1, 1>>.
\* Mutant of percentage: computed from the counter before its increment.
percentage_stale(c, t) == << c - 1, t >>

percentage(c, t) == << c, t >>
Hundred == << 1, 1 >>
PLeq(a, b) == a[1] * b[2] <= b[1] * a[2]
PEq(a, b) == a[1] * b[2] = b[1] * a[2]
PPos(a) == a[1] > 0
\* `let _ = tx.send(v)` on an unbounded channel ch whose receiver is rx: the
\* value is queued at once; with the receiver dropped the send fails and the
\* failure is ignored.
send(ch, rx, v) == IF rx = "dropped" THEN ch ELSE Append(ch, v)

\* `percentage as u64`
as_u64(a) == (a[1] * 100) \div a[2]

\* ---- DatabaseWriter ------------------------------------------------------
\* The writer's mutable part as a value w = [records, join_handles, tasks].
Writer == [records |-> records, join_handles |-> join_handles, tasks |-> tasks]

\* Mutant of write_records: the task is spawned but its handle is not kept.
write_records_nopush(w) ==
    [records |-> << >>,
     join_handles |-> w.join_handles,
     tasks |-> Append(w.tasks, [batch |-> w.records, state |-> "running"])]

\* Mutant of write_records: the task gets a copy and the buffer is kept.
write_records_keep(w) ==
    [records |-> w.records,
     join_handles |-> Append(w.join_handles, Len(w.tasks) + 1),
     tasks |-> Append(w.tasks, [batch |-> w.records, state |-> "running"])]

\* write_records: the buffer is replaced by an empty one; a task owning the
\* old buffer is spawned and its handle pushed.
write_records(w) ==
    [records |-> << >>,
     join_handles |-> Append(w.join_handles, Len(w.tasks) + 1),
     tasks |-> Append(w.tasks, [batch |-> w.records, state |-> "running"])]

\* Mutant of add_record: the record is put at the front of the buffer.
add_record_prepend(w, n, rec) ==
    LET pushed == [w EXCEPT !.records = << rec >> \o w.records]
    IN IF Len(pushed.records) >= n THEN write_records(pushed) ELSE pushed

\* Mutant of add_record: the threshold test is `>` instead of `>=`.
add_record_gt(w, n, rec) ==
    LET pushed == [w EXCEPT !.records = Append(w.records, rec)]
    IN IF Len(pushed.records) > n THEN write_records(pushed) ELSE pushed

\* add_record
add_record(w, n, rec) ==
    LET pushed == [w EXCEPT !.records = Append(w.records, rec)]
    IN IF Len(pushed.records) >= n THEN write_records(pushed) ELSE pushed

Init ==
    /\ pc = "main"
    /\ exit_code = Success
    /\ source \in Sources
    /\ content_length = 0
    /\ tx_channel = "Some"
    /\ rx_channel = << >>
    /\ rx_dropped = FALSE
    /\ producer = "none"
    /\ pos = 0
    /\ chunk_size = DEFAULT_CHUNK_SIZE
    /\ records = << >>
    /\ join_handles = << >>
    /\ tasks = << >>
    /\ collection = { OldDoc }
    /\ indexes = { }
    /\ drop_status = "none"
    /\ index_status = "none"
    /\ received = << >>
    /\ tracker = "none"
    /\ t_handles = << >>
    /\ t_tasks = 0
    /\ counter = 0
    /\ awaited = << >>
    /\ progress = << >>
    /\ sent = << >>
    /\ position = 0
    /\ response = "none"
    /\ calls = << >>
    /\ progress_rx = "none"

\* DatabaseWriter::set_chunk_size, called on the fresh writer before the run.
set_chunk_size(n) ==
    /\ pc = "main"
    /\ chunk_size' = n
    /\ records' = << >>
    /\ UNCHANGED << mainVars, source, dlVars, rx_channel, rx_dropped, prodVars,
                    join_handles, tasks, storeVars, received, trackVars,
                    progress, position >>

\* The DownloadInfo's mutable fields as a value d.
DownloadInfo == [content_length |-> content_length, tx_channel |-> tx_channel]

\* Mutant of download_call: the retained sender is not set to None.
download_call_keep_sender(d, resp, len) ==
    IF resp = "error"
      THEN [content_length |-> d.content_length, tx_channel |-> d.tx_channel,
            result |-> "ReqwestError", spawned |-> FALSE]
    ELSE IF resp = "nolength"
      THEN [content_length |-> d.content_length, tx_channel |-> d.tx_channel,
            result |-> "ZeroLengthError", spawned |-> FALSE]
    ELSE [content_length |-> len, tx_channel |-> d.tx_channel,
          result |-> "Ok", spawned |-> TRUE]

\* DownloadInfo::download on the fields d.  resp is what the GET yields:
\* "error" (the client cannot be built, connection failure or non-success
\* status), "nolength" (success without a content length) or "ok"; len is the
\* content length of an "ok" response.  The value has the fields after the
\* call, the result, and whether a producer task was spawned.
download_call(d, resp, len) ==
    IF resp = "error"
      THEN \* send().await? / error_for_status()?
           [content_length |-> d.content_length, tx_channel |-> d.tx_channel,
            result |-> "ReqwestError", spawned |-> FALSE]
    ELSE IF resp = "nolength"
      THEN \* ok_or(ZeroLengthError)?
           [content_length |-> d.content_length, tx_channel |-> d.tx_channel,
            result |-> "ZeroLengthError", spawned |-> FALSE]
    ELSE IF d.tx_channel = "None"
      THEN \* ok_or(ChannelError)?, after content_length was assigned
           [content_length |-> len, tx_channel |-> d.tx_channel,
            result |-> "ChannelError", spawned |-> FALSE]
    ELSE [content_length |-> len, tx_channel |-> "None",
          result |-> "Ok", spawned |-> TRUE]

\* The entry of `calls` for one download() call.
Call(d, resp, len, r) ==
    [resp |-> resp, len |-> len, before |-> d,
     after |-> [content_length |-> r.content_length,
                tx_channel |-> r.tx_channel],
     result |-> r.result, spawned |-> r.spawned]

\* Mutant of download: the retained sender is not set to None.
download_keep_sender(resp) ==
    /\ pc = "main"
    /\ response' = resp
    /\ LET r == download_call(DownloadInfo, resp, Len(source))
       IN calls' = Append(calls, Call(DownloadInfo, resp, Len(source),
                                      [r EXCEPT !.tx_channel = tx_channel]))
    /\ IF resp \in { "error", "nolength" }
         THEN /\ exit_code' = DownloadError
              /\ pc' = "finish"
              /\ UNCHANGED << content_length, tx_channel, producer >>
         ELSE /\ content_length' = Len(source)
              /\ producer' = "running"
              /\ pc' = "drop"
              /\ UNCHANGED << exit_code, tx_channel >>
    /\ UNCHANGED << source, rx_channel, rx_dropped, pos, writerVars, tasks,
                    storeVars, received, trackVars, progress, position,
                    progress_rx >>

\* DownloadInfo::download as called by download_and_store, and the match on
\* its result: Ok goes on to drop the collection, Err sets DownloadError.
download(resp) ==
    /\ pc = "main"
    /\ response' = resp
    /\ LET r == download_call(DownloadInfo, resp, Len(source))
       IN /\ content_length' = r.content_length
          /\ tx_channel' = r.tx_channel
          /\ calls' = Append(calls, Call(DownloadInfo, resp, Len(source), r))
          /\ IF r.result = "Ok"
               THEN /\ producer' = "running"
                    /\ pc' = "drop"
                    /\ UNCHANGED exit_code
               ELSE /\ exit_code' = DownloadError
                    /\ pc' = "finish"
                    /\ UNCHANGED producer
    /\ UNCHANGED << source, rx_channel, rx_dropped, pos, writerVars, tasks,
                    storeVars, received, trackVars, progress, position,
                    progress_rx >>

\* DatabaseWriter::drop_collection and the match on its result.
drop_collection(ok) ==
    /\ pc = "drop"
    /\ IF ok
         THEN /\ collection' = { }
              /\ indexes' = { }
              /\ drop_status' = "ok"
              /\ pc' = "index"
              /\ UNCHANGED << exit_code, rx_dropped >>
         ELSE \* return ExitCodes::DatabaseError; download_info is dropped
              /\ drop_status' = "err"
              /\ exit_code' = DatabaseError
              /\ pc' = "done"
              /\ rx_dropped' = TRUE
              /\ UNCHANGED << collection, indexes >>
    /\ UNCHANGED << source, dlVars, rx_channel, prodVars, writerVars, tasks,
                    index_status, received, trackVars, progress, position,
                    progress_rx >>

\* Mutant of create_index: a failure sets the exit code but does not return,
\* so the run falls through to finish().
create_index_fallthrough(ok) ==
    /\ pc = "index"
    /\ IF ok
         THEN /\ indexes' = indexes \cup { index_field }
              /\ index_status' = "ok"
              /\ pc' = "handle"
              /\ UNCHANGED << exit_code, rx_dropped >>
         ELSE /\ index_status' = "err"
              /\ exit_code' = DatabaseError
              /\ pc' = "finish"
              /\ UNCHANGED << indexes, rx_dropped >>
    /\ UNCHANGED << source, dlVars, rx_channel, prodVars, writerVars, tasks,
                    collection, drop_status, received, trackVars, progress,
                    position, progress_rx >>

\* DatabaseWriter::create_index("registration") and the match on its result.
create_index(ok) ==
    /\ pc = "index"
    /\ IF ok
         THEN /\ indexes' = indexes \cup { index_field }
              /\ index_status' = "ok"
              /\ pc' = "handle"
              /\ UNCHANGED << exit_code, rx_dropped >>
         ELSE /\ index_status' = "err"
              /\ exit_code' = DatabaseError
              /\ pc' = "done"
              /\ rx_dropped' = TRUE
              /\ UNCHANGED indexes
    /\ UNCHANGED << source, dlVars, rx_channel, prodVars, writerVars, tasks,
                    collection, drop_status, received, trackVars, progress,
                    position, progress_rx >>

\* ---- producer task (iterate_records) -------------------------------------
\* records.next() yields Some(Ok(record)): the envelope is sent.  A send to a
\* dropped receiver is a SendError, which ends the task with Err.
iterate_send ==
    /\ producer = "running"
    /\ pos < Len(source)
    /\ pos' = pos + 1
    /\ IF rx_dropped
         THEN /\ producer' = "err"
              /\ UNCHANGED rx_channel
         ELSE /\ rx_channel' =
                   Append(rx_channel,
                          RecordInfo(Aircraft(source[pos + 1], pos + 1), pos + 1))
              /\ UNCHANGED producer
    /\ UNCHANGED << mainVars, source, dlVars, rx_dropped, writerVars, tasks,
                    storeVars, received, trackVars, progress, position >>

\* records.next() yields Some(Err(e)), a network or parse error: `record?`
\* returns Err from the task body and the sender is dropped.
iterate_error ==
    /\ producer = "running"
    /\ producer' = "err"
    /\ UNCHANGED << mainVars, source, dlVars, rx_channel, rx_dropped, pos,
                    writerVars, tasks, storeVars, received, trackVars,
                    progress, position >>

\* records.next() yields None: the task body returns Ok(()).
iterate_end ==
    /\ producer = "running"
    /\ pos = Len(source)
    /\ producer' = "ok"
    /\ UNCHANGED << mainVars, source, dlVars, rx_channel, rx_dropped, pos,
                    writerVars, tasks, storeVars, received, trackVars,
                    progress, position >>

\* The task does not run to completion (it panics): its JoinHandle yields Err.
producer_panic ==
    /\ producer = "running"
    /\ producer' = "panic"
    /\ UNCHANGED << mainVars, source, dlVars, rx_channel, rx_dropped, pos,
                    writerVars, tasks, storeVars, received, trackVars,
                    progress, position >>

\* ---- handle_download ------------------------------------------------------
\* Mutant of handle_recv: the loop goes on only once no write is in flight.
handle_recv_waits ==
    /\ pc = "handle"
    /\ rx_channel # << >>
    /\ \A t \in 1..Len(tasks) : tasks[t].state # "running"
    /\ LET record_info == Head(rx_channel)
           rec == record_info.record
           w == IF is_empty(rec[key_field])
                  THEN Writer
                  ELSE add_record(Writer, chunk_size,
                                  [rec EXCEPT ![key_field] =
                                                 to_uppercase(rec[key_field])])
       IN /\ rx_channel' = Tail(rx_channel)
          /\ received' = Append(received, record_info)
          /\ records' = w.records
          /\ join_handles' = w.join_handles
          /\ tasks' = w.tasks
    /\ UNCHANGED << mainVars, source, dlVars, rx_dropped, prodVars, chunk_size,
                    storeVars, trackVars, progress, position >>

\* One iteration of `while let Some(record_info) = rx_channel.recv().await`.
handle_recv ==
    /\ pc = "handle"
    /\ rx_channel # << >>
    /\ LET record_info == Head(rx_channel)
           rec == record_info.record
           w == IF is_empty(rec[key_field])
                  THEN Writer
                  ELSE add_record(Writer, chunk_size,
                                  [rec EXCEPT ![key_field] =
                                                 to_uppercase(rec[key_field])])
       IN /\ rx_channel' = Tail(rx_channel)
          /\ received' = Append(received, record_info)
          /\ records' = w.records
          /\ join_handles' = w.join_handles
          /\ tasks' = w.tasks
    /\ UNCHANGED << mainVars, source, dlVars, rx_dropped, prodVars, chunk_size,
                    storeVars, trackVars, progress, position >>

\* recv() returns None: the queue is empty and every sender is dropped.
handle_closed ==
    /\ pc = "handle"
    /\ rx_channel = << >>
    /\ tx_channel = "None"
    /\ producer \in { "ok", "err", "panic" }
    /\ pc' = "join"
    /\ UNCHANGED << exit_code, source, dlVars, rx_channel, rx_dropped, prodVars,
                    writerVars, tasks, storeVars, received, trackVars,
                    progress, position, progress_rx >>

\* join_handle.await and the match on its result: Ok(_) whatever the task's
\* body returned, Err only when the task did not run to completion.
join_producer ==
    /\ pc = "join"
    /\ producer \in { "ok", "err", "panic" }
    /\ exit_code' = IF producer = "panic" THEN JoinError ELSE exit_code
    /\ pc' = "finish"
    /\ UNCHANGED << source, dlVars, rx_channel, rx_dropped, prodVars,
                    writerVars, tasks, storeVars, received, trackVars,
                    progress, position, progress_rx >>

\* ---- DatabaseWriter::finish ------------------------------------------------
\* finish() called by a caller that stands at position p: write_records(),
\* mem::take of the handles, and the spawn of the tracker.
finish_at(p) ==
    /\ pc = p
    /\ LET w == write_records(Writer)
       IN /\ records' = w.records
          /\ tasks' = w.tasks
          /\ join_handles' = << >>
          /\ t_handles' = w.join_handles
          /\ t_tasks' = Len(w.join_handles)
    /\ counter' = 0
    /\ tracker' = "running"
    /\ progress_rx' = "open"
    /\ pc' = "progress"
    /\ UNCHANGED << exit_code, source, dlVars, rx_channel, rx_dropped, prodVars,
                    chunk_size, storeVars, received, awaited, progress, sent,
                    position >>

\* Mutant of finish: the remaining records are not written.
finish_noflush ==
    /\ pc = "finish"
    /\ UNCHANGED << records, tasks >>
    /\ join_handles' = << >>
    /\ t_handles' = join_handles
    /\ t_tasks' = Len(join_handles)
    /\ counter' = 0
    /\ tracker' = "running"
    /\ progress_rx' = "open"
    /\ pc' = "progress"
    /\ UNCHANGED << exit_code, source, dlVars, rx_channel, rx_dropped, prodVars,
                    chunk_size, storeVars, received, awaited, progress, sent,
                    position >>

\* finish() as download_and_store calls it, after the producer was joined.
finish == finish_at("finish")

\* ---- WriteTask ------------------------------------------------------------
\* insert_many on the task's batch.  "ok": every document is stored.  "err":
\* the insert fails after storing the first n documents (an ordered bulk
\* insert stops at its first failure).  "panic": the task does not run to
\* completion (it stores nothing) and its JoinHandle yields Err.
write_task(i, outcome, n) ==
    /\ i \in 1..Len(tasks)
    /\ tasks[i].state = "running"
    /\ n \in 0..Len(tasks[i].batch)
    /\ outcome = "ok" => n = Len(tasks[i].batch)
    /\ outcome = "err" => n < Len(tasks[i].batch) \/ n = 0
    /\ outcome = "panic" => n = 0
    /\ tasks' = [tasks EXCEPT ![i].state = outcome]
    /\ collection' = collection \cup { tasks[i].batch[j] : j \in 1..n }
    /\ UNCHANGED << mainVars, source, dlVars, rx_channel, rx_dropped, prodVars,
                    writerVars, indexes, drop_status, index_status, received,
                    trackVars, progress, position >>

\* ---- tracker task ---------------------------------------------------------
\* Mutant of tracker_await: a failed insert ends the tracker at once.
tracker_await_abort ==
    /\ tracker = "running"
    /\ t_handles # << >>
    /\ LET h == Head(t_handles)
       IN /\ tasks[h].state # "running"
          /\ t_handles' = Tail(t_handles)
          /\ awaited' = Append(awaited, h)
          /\ IF tasks[h].state = "ok"
               THEN /\ counter' = counter + 1
                    /\ progress' = send(progress, progress_rx,
                                         percentage(counter + 1, t_tasks))
                    /\ sent' = send(sent, progress_rx,
                                     percentage(counter + 1, t_tasks))
                    /\ UNCHANGED tracker
               ELSE IF tasks[h].state = "err"
               THEN /\ tracker' = "done"
                    /\ UNCHANGED << counter, progress, sent >>
               ELSE UNCHANGED << counter, progress, sent, tracker >>
    /\ UNCHANGED << mainVars, source, dlVars, rx_channel, rx_dropped, prodVars,
                    writerVars, tasks, storeVars, received, t_tasks, position >>

\* Mutant of tracker_await: a send that fails ends the tracker.
tracker_await_sendfail ==
    /\ tracker = "running"
    /\ t_handles # << >>
    /\ LET h == Head(t_handles)
       IN /\ tasks[h].state # "running"
          /\ t_handles' = Tail(t_handles)
          /\ awaited' = Append(awaited, h)
          /\ IF tasks[h].state \in { "ok", "err" }
               THEN /\ counter' = counter + 1
                    /\ progress' = send(progress, progress_rx,
                                         percentage(counter + 1, t_tasks))
                    /\ sent' = send(sent, progress_rx,
                                     percentage(counter + 1, t_tasks))
                    /\ tracker' = IF progress_rx = "dropped" THEN "done" ELSE tracker
               ELSE UNCHANGED << counter, progress, sent, tracker >>
    /\ UNCHANGED << mainVars, source, dlVars, rx_channel, rx_dropped, prodVars,
                    writerVars, tasks, storeVars, received, t_tasks, position >>

\* Mutant of tracker_await: the handle is counted without being awaited.
tracker_await_eager ==
    /\ tracker = "running"
    /\ t_handles # << >>
    /\ LET h == Head(t_handles)
       IN /\ t_handles' = Tail(t_handles)
          /\ awaited' = Append(awaited, h)
          /\ IF tasks[h].state # "panic"
               THEN /\ counter' = counter + 1
                    /\ progress' = send(progress, progress_rx,
                                         percentage(counter + 1, t_tasks))
                    /\ sent' = send(sent, progress_rx,
                                     percentage(counter + 1, t_tasks))
               ELSE UNCHANGED << counter, progress, sent >>
    /\ UNCHANGED << mainVars, source, dlVars, rx_channel, rx_dropped, prodVars,
                    writerVars, tasks, storeVars, received, tracker, t_tasks,
                    position >>

\* One iteration of `for join_handle in join_handles.drain(..)`.
tracker_await ==
    /\ tracker = "running"
    /\ t_handles # << >>
    /\ LET h == Head(t_handles)
       IN /\ tasks[h].state # "running"
          /\ t_handles' = Tail(t_handles)
          /\ awaited' = Append(awaited, h)
          /\ IF tasks[h].state \in { "ok", "err" }
               THEN \* Ok(_): the task ran to completion
                    /\ counter' = counter + 1
                    /\ progress' = send(progress, progress_rx,
                                         percentage(counter + 1, t_tasks))
                    /\ sent' = send(sent, progress_rx,
                                     percentage(counter + 1, t_tasks))
               ELSE \* Err(_) => {}
                    /\ UNCHANGED << counter, progress, sent >>
    /\ UNCHANGED << mainVars, source, dlVars, rx_channel, rx_dropped, prodVars,
                    writerVars, tasks, storeVars, received, tracker, t_tasks,
                    position >>

\* Mutant of tracker_end: the sender is kept alive after the terminal send.
tracker_end_keep_tx ==
    /\ tracker = "running"
    /\ t_handles = << >>
    /\ progress' = send(progress, progress_rx, Hundred)
    /\ sent' = send(sent, progress_rx, Hundred)
    /\ tracker' = "parked"
    /\ UNCHANGED << mainVars, source, dlVars, rx_channel, rx_dropped, prodVars,
                    writerVars, tasks, storeVars, received, t_handles, t_tasks,
                    counter, awaited, position >>

\* After the loop: tx.send(100.0); the task ends and drops the sender.
tracker_end ==
    /\ tracker = "running"
    /\ t_handles = << >>
    /\ progress' = send(progress, progress_rx, Hundred)
    /\ sent' = send(sent, progress_rx, Hundred)
    /\ tracker' = "done"
    /\ UNCHANGED << mainVars, source, dlVars, rx_channel, rx_dropped, prodVars,
                    writerVars, tasks, storeVars, received, t_handles, t_tasks,
                    counter, awaited, position >>

\* ---- download_and_store: the progress loop --------------------------------
\* One iteration of `while let Some(percentage) = channel.recv().await`.
progress_recv ==
    /\ pc = "progress"
    /\ progress # << >>
    /\ position' = as_u64(Head(progress))
    /\ progress' = Tail(progress)
    /\ UNCHANGED << mainVars, source, dlVars, rx_channel, rx_dropped, prodVars,
                    writerVars, tasks, storeVars, received, trackVars >>

\* recv() returns None: the function returns exit_code.
progress_closed ==
    /\ pc = "progress"
    /\ progress = << >>
    /\ tracker = "done"
    /\ pc' = "done"
    /\ rx_dropped' = TRUE
    /\ progress_rx' = "dropped"
    /\ UNCHANGED << exit_code, source, dlVars, rx_channel, prodVars, writerVars,
                    tasks, storeVars, received, trackVars, progress, position >>

Next ==
    \/ \E n \in 1..MaxChunk : set_chunk_size(n)
    \/ \E resp \in { "error", "nolength", "ok" } : download(resp)
    \/ \E ok \in BOOLEAN : drop_collection(ok)
    \/ \E ok \in BOOLEAN : create_index(ok)
    \/ iterate_send
    \/ iterate_error
    \/ iterate_end
    \/ producer_panic
    \/ handle_recv
    \/ handle_closed
    \/ join_producer
    \/ finish
    \/ \E i \in 1..(MaxRows + 1), outcome \in { "ok", "err", "panic" },
          n \in 0..MaxRows : write_task(i, outcome, n)
    \/ tracker_await
    \/ tracker_end
    \/ progress_recv
    \/ progress_closed

Spec == Init /\ [][Next]_vars

\* ---- a caller of finish() that does not listen ------------------------------
\* The receiver returned by finish() is dropped by its owner without being
\* read to the end: the queued values are discarded and the caller returns.
drop_receiver ==
    /\ pc = "progress"
    /\ progress_rx = "open"
    /\ progress_rx' = "dropped"
    /\ progress' = << >>
    /\ pc' = "done"
    /\ rx_dropped' = TRUE
    /\ UNCHANGED << exit_code, source, dlVars, rx_channel, prodVars, writerVars,
                    tasks, storeVars, received, trackVars, position >>

NextDetached == Next \/ drop_receiver

SpecDetached == Init /\ [][NextDetached]_vars

\* ---- fair scheduling ---------------------------------------------------------
\* The runtime keeps running every spawned task and the main future: no step
\* that stays enabled is postponed for ever.
Fairness ==
    /\ WF_vars(iterate_send) /\ WF_vars(iterate_end)
    /\ WF_vars(handle_recv) /\ WF_vars(handle_closed)
    /\ WF_vars(join_producer) /\ WF_vars(finish)
    /\ WF_vars(\E i \in 1..(MaxRows + 1), outcome \in { "ok", "err", "panic" },
                  n \in 0..MaxRows : write_task(i, outcome, n))
    /\ WF_vars(tracker_await) /\ WF_vars(tracker_end)
    /\ WF_vars(progress_recv) /\ WF_vars(progress_closed)

FairSpec == Spec /\ Fairness

\* ---- the DatabaseWriter under a caller other than download_and_store --------
\* A caller that owns a fresh DatabaseWriter and calls its public methods in
\* any order: add_record and set_chunk_size any number of times, then
\* finish(), whose receiver it reads to the end.  `received` logs the records
\* passed to add_record, numbered in call order; the writer is generic in the
\* record type and never reads a record, so one key stands for all.
writer_add_record ==
    /\ pc = "main"
    /\ Len(received) < MaxRows
    /\ LET rec == Aircraft(<< "A" >>, Len(received) + 1)
           w == add_record(Writer, chunk_size, rec)
       IN /\ received' = Append(received, RecordInfo(rec, Len(received) + 1))
          /\ records' = w.records
          /\ join_handles' = w.join_handles
          /\ tasks' = w.tasks
    /\ UNCHANGED << mainVars, source, dlVars, rx_channel, rx_dropped, prodVars,
                    chunk_size, storeVars, trackVars, progress, position >>

writer_finish == finish_at("main")

InitWriter == Init /\ source = << >>

NextWriter ==
    \/ \E n \in 1..MaxChunk : set_chunk_size(n)
    \/ writer_add_record
    \/ writer_finish
    \/ \E i \in 1..(MaxRows + 1), outcome \in { "ok", "err", "panic" },
          n \in 0..MaxRows : write_task(i, outcome, n)
    \/ tracker_await
    \/ tracker_end
    \/ progress_recv
    \/ progress_closed

SpecWriter == InitWriter /\ [][NextWriter]_vars

\* ---- the DownloadInfo under a caller other than download_and_store ----------
\* A caller that owns a fresh DownloadInfo and calls download() more than
\* once, each time with a URL of its own: src is the resource behind the URL.
\* A spawned producer task reads that resource from its start.
api_download(resp, src) ==
    /\ pc = "main"
    /\ Len(calls) < MaxCalls
    /\ response' = resp
    /\ LET r == download_call(DownloadInfo, resp, Len(src))
       IN /\ content_length' = r.content_length
          /\ tx_channel' = r.tx_channel
          /\ calls' = Append(calls, Call(DownloadInfo, resp, Len(src), r))
          /\ IF r.spawned
               THEN /\ producer' = "running"
                    /\ pos' = 0
                    /\ source' = src
               ELSE UNCHANGED << producer, pos, source >>
    /\ UNCHANGED << mainVars, rx_channel, rx_dropped, writerVars, tasks,
                    storeVars, received, trackVars, progress, position >>

InitDownload == Init /\ source = << >>

NextDownload ==
    \/ \E resp \in { "error", "nolength", "ok" }, src \in Sources :
          api_download(resp, src)
    \/ iterate_send
    \/ iterate_error
    \/ iterate_end
    \/ producer_panic

SpecDownload == InitDownload /\ [][NextDownload]_vars

\* ======================================================================
\* Properties
\* ======================================================================
RECURSIVE Flatten(_)
Flatten(ss) == IF ss = << >> THEN << >> ELSE Head(ss) \o Flatten(Tail(ss))

\* The batches of all dispatched WriteTasks, in dispatch order.
Batches == [i \in 1..Len(tasks) |-> tasks[i].batch]

\* The canonical (uppercase) form of a key, stated independently of the code.
Cap == [a |-> "A", b |-> "B", c |-> "C", A |-> "A", B |-> "B", C |-> "C", O |-> "O"]
CanonKey(k) == [i \in 1..Len(k) |-> Cap[k[i]]]
IsCanon(k) == k # << >> /\ CanonKey(k) = k
Canon(rec) == [rec EXCEPT !.icao24 = CanonKey(rec.icao24)]

HasKey(e) == e.record.icao24 # << >>
\* The valid records among the received envelopes, canonical, in order.
ValidReceived ==
    LET v == SelectSeq(received, HasKey)
    IN [i \in 1..Len(v) |-> Canon(v[i].record)]

Ceil(r, n) == (r + n - 1) \div n
Finished == tracker # "none"
Range(f) == { f[i] : i \in DOMAIN f }
Iota(n) == [i \in 1..n |-> i]

\* C1: after R valid records were fed through add_record and finish() has
\* run, exactly ceil(R/N) WriteTasks are dispatched: all of size N except the
\* last, of size R mod N (N when R mod N = 0), and none when R = 0.
C1_BatchCount ==
    Finished =>
        LET R == Len(ValidReceived)
            N == chunk_size
        IN /\ Len(tasks) = Ceil(R, N)
           /\ \A i \in 1..Len(tasks) :
                 Len(tasks[i].batch) =
                    IF i < Len(tasks) \/ R % N = 0 THEN N ELSE R % N

\* C2: every record in the buffer or in a dispatched batch has a non-empty
\* uppercase key; a row with an empty key is in no batch, is not counted, and
\* the rows received after it are still processed: buffer and batches hold
\* exactly the valid received rows, in order.
C2_ValidKeys ==
    /\ \A i \in 1..Len(records) : IsCanon(records[i].icao24)
    /\ \A t \in 1..Len(tasks) : \A i \in 1..Len(tasks[t].batch) :
          IsCanon(tasks[t].batch[i].icao24)
    /\ Flatten(Batches) \o records = ValidReceived

\* C2 witness: an empty-key row was received between two valid rows and the
\* valid row after it has reached a dispatched batch.
C2_Witness ==
    /\ Len(received) = 3
    /\ received[1].record.icao24 # << >>
    /\ received[2].record.icao24 = << >>
    /\ received[3].record.icao24 # << >>
    /\ \E t \in 1..Len(tasks) : \E i \in 1..Len(tasks[t].batch) :
          tasks[t].batch[i].row = 3

\* C3: no WriteTask is dispatched unless the collection drop and the index
\* creation have both completed successfully before.
C3_DispatchAfterLifecycle ==
    tasks # << >> => drop_status = "ok" /\ index_status = "ok"

\* C4: if drop_collection or create_index fails, no WriteTask is dispatched
\* (add_record and finish never run) and the run ends with DatabaseError.
C4_LifecycleFailure ==
    (drop_status = "err" \/ index_status = "err") =>
        /\ tasks = << >>
        /\ records = << >>
        /\ received = << >>
        /\ tracker = "none"
        /\ pc = "done"
        /\ exit_code = DatabaseError

\* C4 witness: index creation failed while the producer had already queued
\* envelopes.
C4_Witness == index_status = "err" /\ rx_channel # << >>

\* C5: if the producer task ends with a network or parse error, the run's
\* final status is never Success.
C5_ProducerErrorSurfaces ==
    (pc = "done" /\ producer = "err") => exit_code # Success

\* C6: if the producer fails mid-stream, every envelope it sent is received,
\* every valid record received is in a dispatched batch once finish() has run
\* (the partial batch is flushed), and every dispatched WriteTask is awaited
\* by the tracker, none skipped.
C6_FailureStillFlushes ==
    (producer = "err" /\ Finished) =>
        /\ rx_channel = << >>
        /\ Len(received) = pos
        /\ records = << >>
        /\ Flatten(Batches) = ValidReceived
        /\ awaited \o t_handles = Iota(Len(tasks))
        /\ (tracker = "done" => awaited = Iota(Len(tasks)))

\* C6 witness: the producer failed after three valid rows with chunk size 2;
\* the full batch and the flushed partial batch were both awaited.
C6_Witness ==
    /\ producer = "err"
    /\ tracker = "done"
    /\ pos = 3
    /\ Len(tasks) = 2
    /\ Len(tasks[1].batch) = 2
    /\ Len(tasks[2].batch) = 1

\* C7: the values sent on the progress channel are non-decreasing, the first
\* is > 0, every value is <= 100, and the last one is exactly 100.
C7_ProgressSequence ==
    /\ \A i \in 1..(Len(sent) - 1) : PLeq(sent[i], sent[i + 1])
    /\ sent # << >> => PPos(sent[1])
    /\ \A i \in 1..Len(sent) : PLeq(sent[i], Hundred)
    /\ tracker = "done" => sent # << >> /\ PEq(sent[Len(sent)], Hundred)

\* C7 witness: a finished tracker run over successful, failed and un-joined
\* tasks that sent at least three values.
C7_Witness ==
    /\ tracker = "done"
    /\ Len(sent) >= 3
    /\ \E t \in 1..Len(tasks) : tasks[t].state = "panic"
    /\ \E t \in 1..Len(tasks) : tasks[t].state = "err"
    /\ \E t \in 1..Len(tasks) : tasks[t].state = "ok"

\* The valid, canonical records of the whole source stream.
ValidSource ==
    { Canon(Aircraft(source[i], i)) :
        i \in { j \in 1..Len(source) : source[j] # << >> } }

\* C8 (as claimed): when the run ends with Success the collection holds
\* exactly the valid, normalized records of the source stream.
C8_ExactCollection ==
    (pc = "done" /\ exit_code = Success) => collection = ValidSource

\* C8 (amended): when the run ends with Success the collection holds only
\* valid, normalized records of this run's source stream (no invalid row,
\* nothing from before the run) and every record of every batch whose insert
\* succeeded.
C8_SuccessCollection ==
    (pc = "done" /\ exit_code = Success) =>
        /\ collection \subseteq ValidSource
        /\ \A t \in 1..Len(tasks) :
              tasks[t].state = "ok" => Range(tasks[t].batch) \subseteq collection

\* C8 witness: a run ended with Success in which one insert succeeded and
\* another, of a non-empty batch, failed.
C8_Witness ==
    /\ pc = "done"
    /\ exit_code = Success
    /\ collection # { }
    /\ \E t \in 1..Len(tasks) :
          tasks[t].state = "err" /\ ~(Range(tasks[t].batch) \subseteq collection)

\* C9: every handle pushed by write_records is awaited exactly once by the
\* tracker, in dispatch order; when the tracker ends none is left.
C9_AwaitedOnceInOrder ==
    /\ tracker = "none" => join_handles = Iota(Len(tasks)) /\ awaited = << >>
    /\ Finished =>
          /\ join_handles = << >>
          /\ t_tasks = Len(tasks)
          /\ awaited \o t_handles = Iota(Len(tasks))
    /\ tracker = "done" => awaited = Iota(Len(tasks))
    /\ \A i \in 1..Len(awaited) : tasks[awaited[i]].state # "running"

\* C9 witness: the tracker has ended after awaiting three handles, the first
\* of a task that did not join.
C9_Witness ==
    /\ tracker = "done"
    /\ Len(awaited) = 3
    /\ tasks[1].state = "panic"

\* The status of the run as decided by the download, the lifecycle steps and
\* the producer's join alone.
StatusOfRun ==
    IF producer = "none" THEN DownloadError
    ELSE IF drop_status = "err" \/ index_status = "err" THEN DatabaseError
    ELSE IF producer = "panic" THEN JoinError
    ELSE Success

\* C10: a failed batch insert is non-fatal: the tracker still awaits every
\* remaining handle and ends with 100, and the exit code is what the download,
\* lifecycle and producer join alone decide.
C10_InsertFailureNonFatal ==
    (\E t \in 1..Len(tasks) : tasks[t].state = "err") =>
        /\ tracker = "done" =>
              /\ awaited = Iota(Len(tasks))
              /\ sent # << >> /\ sent[Len(sent)] = Hundred
        /\ pc = "done" => tracker = "done" /\ exit_code = StatusOfRun

\* C10 witness: the first insert failed, a later one succeeded, and the run
\* ended with Success.
C10_Witness ==
    /\ pc = "done"
    /\ exit_code = Success
    /\ Len(tasks) >= 2
    /\ tasks[1].state = "err"
    /\ tasks[2].state = "ok"

\* C11: a successful response without a content length does not make
\* download() fail: the producer task is spawned and the run proceeds.
C11_NoLengthProceeds ==
    response = "nolength" => producer # "none" /\ exit_code # DownloadError

\* The envelope of source row i as the producer builds it.
SourceEnvelope(i) == RecordInfo(Aircraft(source[i], i), i)
RowsOf(recs) == [i \in 1..Len(recs) |-> recs[i].row]

\* C12: the consumer receives the envelopes in the order the producer sent
\* them, and the dispatched batches in dispatch order, followed by the buffer,
\* are the valid received records in source order.
C12_OrderPreserved ==
    /\ received \o rx_channel =
          [i \in 1..(Len(received) + Len(rx_channel)) |-> SourceEnvelope(i)]
    /\ LET v == SelectSeq(received, HasKey)
       IN RowsOf(Flatten(Batches) \o records) =
             [i \in 1..Len(v) |-> v[i].record.row]

\* C12 witness: a later batch has been stored while the
\* earlier one is still in flight and the stream goes on.
C12_Witness ==
    /\ Len(tasks) >= 2
    /\ tasks[1].state = "running"
    /\ tasks[2].state = "ok"
    /\ Len(tasks[1].batch) = 1
    /\ Len(tasks[2].batch) = 1
    /\ rx_channel # << >>

ProducerEnded == producer \in { "ok", "err", "panic" }

\* C13: once download() returned Ok the producer task holds the only sender;
\* the consumer loop is left only after the task has ended and every envelope
\* it sent has been received, and closure is not an error.
C13_ClosureAfterDelivery ==
    /\ producer # "none" => tx_channel = "None"
    /\ (pc \in { "join", "finish", "progress", "done" } /\ index_status = "ok") =>
          /\ ProducerEnded
          /\ rx_channel = << >>
          /\ Len(received) = pos
    /\ pc = "join" => exit_code = Success

\* C13 witness: the producer ended with Err after two envelopes; the consumer
\* has received both and left its loop.
C13_Witness ==
    /\ pc = "join"
    /\ producer = "err"
    /\ Len(received) = 2

\* C14: the accumulator never waits on a dispatched write: in the consumer
\* loop the buffer is below the threshold and the next envelope can be taken
\* whatever the state of the WriteTasks.
C14_NeverWaitsOnWrites ==
    pc = "handle" =>
        /\ Len(records) < chunk_size
        /\ rx_channel # << >> => ENABLED handle_recv

\* C14 witness: every full chunk received so far (two) is in flight at once
\* while the accumulator still has an envelope to take.
C14_Witness ==
    /\ pc = "handle"
    /\ rx_channel # << >>
    /\ Len(tasks) = 2
    /\ \A t \in 1..Len(tasks) :
          tasks[t].state = "running" /\ Len(tasks[t].batch) = chunk_size

\* C15: for every awaited WriteTask, whatever its outcome, the tracker
\* increments its counter and publishes a value: the counter equals the number
\* of awaited handles, and at the end it equals the total, with one
\* non-terminal value per dispatched WriteTask.
C15_EveryAwaitCounted ==
    /\ counter = Len(awaited)
    /\ tracker = "done" => counter = t_tasks /\ Len(sent) = t_tasks + 1

\* C16: the producer reads no row and enqueues no envelope before the drop
\* and the index creation have both completed.
C16_StreamAfterLifecycle ==
    (pos > 0 \/ rx_channel # << >>) =>
        drop_status = "ok" /\ index_status = "ok"

\* C17: every envelope placed in the queue carries a record whose key is
\* non-empty and uppercased.
C17_QueueHoldsValid ==
    /\ \A i \in 1..Len(rx_channel) : IsCanon(rx_channel[i].record.icao24)
    /\ \A i \in 1..Len(received) : IsCanon(received[i].record.icao24)

\* C18: under fair scheduling every run that reaches finish() terminates: the
\* tracker ends, the progress channel is drained and closed and
\* download_and_store returns; the tracker never divides by a zero total.
C18_Terminates ==
    /\ (pc = "finish") ~>
          (pc = "done" /\ tracker = "done" /\ progress = << >>
             /\ progress_rx = "dropped")
    /\ [](Finished => t_tasks > 0)

\* C18 witness: a run has returned although no WriteTask completed (both
\* tasks failed to join).
C18_Witness ==
    /\ pc = "done"
    /\ tracker = "done"
    /\ Len(tasks) = 2
    /\ \A t \in 1..Len(tasks) : tasks[t].state = "panic"

\* C19: the tracker is not blocked or aborted by the progress listener: with
\* the receiver dropped or unread it can always take its next step, and it
\* ends only after awaiting every handle.
C19_TrackerIndependent ==
    /\ (tracker = "running" /\ t_handles # << >>
          /\ tasks[Head(t_handles)].state # "running") => ENABLED tracker_await
    /\ (tracker = "running" /\ t_handles = << >>) => ENABLED tracker_end
    /\ Finished => awaited \o t_handles = Iota(Len(tasks))
    /\ tracker = "done" => awaited = Iota(Len(tasks))

\* C19 witness: the receiver was dropped before anything was sent, and the
\* tracker still awaited three handles and ended.
C19_Witness ==
    /\ tracker = "done"
    /\ progress_rx = "dropped"
    /\ sent = << >>
    /\ Len(awaited) = 3
    /\ tasks[1].state = "ok"

\* C20: the buffer always holds fewer than N records, every batch has at most
\* N records, and a batch dispatched by add_record has exactly N.
C20_BatchBound ==
    /\ Len(records) < chunk_size
    /\ \A t \in 1..Len(tasks) :
          /\ Len(tasks[t].batch) <= chunk_size
          /\ (tracker = "none" \/ t < Len(tasks)) =>
                Len(tasks[t].batch) = chunk_size

\* C20 witness: with chunk size 2, one full batch was dispatched by
\* add_record and finish() flushed a batch of one.
C20_Witness ==
    /\ chunk_size = 2
    /\ Finished
    /\ Len(tasks) = 2
    /\ Len(tasks[2].batch) = 1
    /\ tasks[1].state = "running"

C22_OpenFailureLeavesStore ==
    response \in { "error", "nolength" } =>
        /\ drop_status = "none"
        /\ index_status = "none"
        /\ tasks = << >>
        /\ pc = "done" => exit_code = DownloadError

\* The places (task, index) of the dispatched batches that hold record rec.
PlacesOf(rec) ==
    { p \in { << t, j >> : t \in 1..Len(tasks), j \in 1..MaxRows } :
        p[2] <= Len(tasks[p[1]].batch) /\ tasks[p[1]].batch[p[2]] = rec }

\* C23: once finish() has run, every record passed to add_record is in
\* exactly one dispatched batch: none is lost, none is duplicated.
C23_ExactlyOneBatch ==
    Finished =>
        /\ records = << >>
        /\ \A i \in 1..Len(ValidReceived) :
              Cardinality(PlacesOf(ValidReceived[i])) = 1
        /\ Len(Flatten(Batches)) = Len(ValidReceived)

\* C23 witness: three records were passed to add_record with chunk size 2
\* and finish() has run.
C23_Witness ==
    /\ Finished
    /\ chunk_size = 2
    /\ Len(ValidReceived) = 3

\* C24: progress never overstates completion: the j-th non-terminal value is
\* j/T x 100 and, when it has been sent, the first j WriteTasks in dispatch
\* order have all finished.
C24_ProgressNotOverstated ==
    Finished =>
        /\ counter <= Len(sent)
        /\ counter <= Len(awaited)
        /\ \A j \in 1..counter :
              /\ sent[j] = << j, t_tasks >>
              /\ \A h \in 1..j : tasks[h].state # "running"

\* C24 witness: the third task finished before the second; only the value
\* for the first has been sent.
C24_Witness ==
    /\ tracker = "running"
    /\ Len(tasks) >= 3
    /\ tasks[1].state = "ok"
    /\ tasks[2].state = "running"
    /\ tasks[3].state = "ok"
    /\ sent = << << 1, t_tasks >> >>

\* C25: set_chunk_size changes only the dispatch threshold: every record
\* passed to add_record is, at any time, either still buffered or in a
\* dispatched batch, and once finish() has run all of them are in a batch.
C25_BufferKept ==
    /\ \A i \in 1..Len(received) :
          \/ received[i].record \in Range(records)
          \/ PlacesOf(received[i].record) # { }
    /\ Finished => Len(Flatten(Batches)) = Len(received)

\* The download() calls that spawned a producer task.
Spawning == { j \in 1..Len(calls) : calls[j].spawned }

\* C26 (as claimed): the sender goes to a producer task at most once; every
\* download() after one that returned Ok returns ChannelError; and a
\* download() that returns Err leaves content_length and the retained sender
\* as they were.
C26_ErrLeavesState ==
    /\ Cardinality(Spawning) <= 1
    /\ \A i, j \in 1..Len(calls) :
          i < j /\ calls[i].result = "Ok" =>
              calls[j].result = "ChannelError" /\ ~calls[j].spawned
    /\ \A j \in 1..Len(calls) :
          calls[j].result # "Ok" => calls[j].after = calls[j].before

\* C26 (amended): the sender goes to a producer task at most once; every
\* download() after one that returned Ok returns Err without spawning a
\* task, ChannelError exactly when its GET succeeded with a content length;
\* a download() that returns Err leaves the retained sender as it was, and
\* leaves content_length as it was unless the Err is ChannelError, which has
\* stored the new response's content length.
C26_SenderMovedOnce ==
    /\ Cardinality(Spawning) <= 1
    /\ Spawning = { j \in 1..Len(calls) : calls[j].result = "Ok" }
    /\ tx_channel = "None" <=> Spawning # { }
    /\ \A i, j \in 1..Len(calls) :
          i < j /\ calls[i].result = "Ok" =>
              /\ calls[j].result # "Ok"
              /\ ~calls[j].spawned
              /\ calls[j].result = "ChannelError" <=> calls[j].resp = "ok"
    /\ \A j \in 1..Len(calls) :
          calls[j].result # "Ok" =>
              /\ calls[j].after.tx_channel = calls[j].before.tx_channel
              /\ calls[j].result # "ChannelError" =>
                    calls[j].after.content_length = calls[j].before.content_length
              /\ calls[j].result = "ChannelError" =>
                    calls[j].after.content_length = calls[j].len

\* C26 witness: a second download() after an Ok one returned ChannelError
\* and changed content_length, while the first call's producer is running.
C26_Witness ==
    /\ Len(calls) = 2
    /\ calls[1].result = "Ok"
    /\ calls[2].result = "ChannelError"
    /\ calls[2].after.content_length # calls[2].before.content_length
    /\ producer = "running"

====
